---------------------------- MODULE Spec2Model ----------------------------
(***************************************************************************)
(* Model of AirlineChecker.analyze_status (src/airline_checker.py), the    *)
(* keyword heuristic that classifies an airline from a text extract.       *)
(*                                                                         *)
(* A Python str is modelled as a sequence of one-character strings, so     *)
(* that substring tests, str.lower(), str.strip() and the two regular      *)
(* expressions are computed character by character. The alphabet is ASCII. *)
(* The Cyrillic literals of the source are written in Latin letters:       *)
(*   line 117 -> "NIZKIY", lines 119/121 -> "VYSOKIY", line 123 ->         *)
(*   "SREDNIY", line 127 -> "NE DEYSTVUET (prekrashchena ...)" with        *)
(*   "data neizvestna", line 129 -> "DEYSTVUET", line 131 ->               *)
(*   "PEREIMENOVANA", line 133 -> "STATUS NEIZVESTEN", line 137 -> "N/D".  *)
(* Python's None is the empty sequence: no match of either regular         *)
(* expression is empty, so the two never coincide.                         *)
(***************************************************************************)
EXTENDS Naturals, Sequences, FiniteSets, TLC

VARIABLES
  text, calls,          \* analyze_status: the source text, the latest invocations
  query, record,        \* check_airline: the name and the answers of the
                        \* lookup service, the record returned
  wiki, idx, results,   \* main: the lookup service by name, the loop index,
  reports, analyses     \* the result list, the reports written, the number
                        \* of analyze_status invocations

analysis_vars == <<text, calls>>

lookup_vars == <<query, record>>

main_vars == <<wiki, idx, results, reports, analyses>>

vars == <<analysis_vars, lookup_vars, main_vars>>

\* The variables of analyze_status, of check_airline and of main, in the
\* specifications that do not run them.
AnalysisIdle == text = <<>> /\ calls = <<>>

LookupIdle == query = <<>> /\ record = <<>>

MainIdle ==
  /\ wiki = <<>>
  /\ idx = 0
  /\ results = <<>>
  /\ reports = <<>>
  /\ analyses = 0

(***************************************************************************)
(* Bounds of the model.                                                    *)
(***************************************************************************)
\* A source text is the concatenation of at most MaxFrags vocabulary fragments.
MaxFrags == 2

(***************************************************************************)
(* Characters and strings.                                                 *)
(***************************************************************************)
None == <<>>

Upper ==
  {"A","B","C","D","E","F","G","H","I","J","K","L","M",
   "N","O","P","Q","R","S","T","U","V","W","X","Y","Z"}

Lower ==
  {"a","b","c","d","e","f","g","h","i","j","k","l","m",
   "n","o","p","q","r","s","t","u","v","w","x","y","z"}

Digit == {"0","1","2","3","4","5","6","7","8","9"}

\* [A-Z] under re.IGNORECASE
Letter == Upper \cup Lower

\* \s, and the characters that str.strip() removes: within ASCII the blank,
\* \t, \n, \x0b, \f, \r and \x1c to \x1f. The texts of the model are ASCII.
Whitespace ==
  {" ", "\t", "\n", "", "\f", "\r", "", "", "", ""}

\* \w
WordChar == Letter \cup Digit \cup {"_"}

\* [\w\s&-]
NameChar == WordChar \cup Whitespace \cup {"&", "-"}

LowerMap ==
  [c \in Upper |->
     CASE c = "A" -> "a" [] c = "B" -> "b" [] c = "C" -> "c" [] c = "D" -> "d"
       [] c = "E" -> "e" [] c = "F" -> "f" [] c = "G" -> "g" [] c = "H" -> "h"
       [] c = "I" -> "i" [] c = "J" -> "j" [] c = "K" -> "k" [] c = "L" -> "l"
       [] c = "M" -> "m" [] c = "N" -> "n" [] c = "O" -> "o" [] c = "P" -> "p"
       [] c = "Q" -> "q" [] c = "R" -> "r" [] c = "S" -> "s" [] c = "T" -> "t"
       [] c = "U" -> "u" [] c = "V" -> "v" [] c = "W" -> "w" [] c = "X" -> "x"
       [] c = "Y" -> "y" [] c = "Z" -> "z"]

CharLower(c) == IF c \in Upper THEN LowerMap[c] ELSE c

\* str.lower()
RECURSIVE lower(_)
lower(s) == IF s = <<>> THEN <<>> ELSE <<CharLower(s[1])>> \o lower(Tail(s))

\* str.strip()
RECURSIVE strip(_)
strip(s) ==
  IF s = <<>> THEN s
  ELSE IF s[1] \in Whitespace THEN strip(Tail(s))
  ELSE IF s[Len(s)] \in Whitespace THEN strip(SubSeq(s, 1, Len(s) - 1))
  ELSE s

\* The Python str that a sequence of characters stands for.
RECURSIVE Str(_)
Str(s) == IF s = <<>> THEN "" ELSE s[1] \o Str(Tail(s))

Min(S) == CHOOSE x \in S : \A y \in S : x <= y

\* k occurs in t at position p.
MatchAt(t, p, k) ==
  /\ p >= 1
  /\ p + Len(k) - 1 <= Len(t)
  /\ \A j \in 1..Len(k) : t[p + j - 1] = k[j]

\* k occurs in t at position p, letter case ignored (re.IGNORECASE).
MatchAtIC(t, p, k) ==
  /\ p >= 1
  /\ p + Len(k) - 1 <= Len(t)
  /\ \A j \in 1..Len(k) : CharLower(t[p + j - 1]) = CharLower(k[j])

\* Python's `k in t` on strings.
Contains(t, k) == \E p \in 1..(Len(t) + 1) : MatchAt(t, p, k)

(***************************************************************************)
(* The keyword lists of analyze_status.                                    *)
(***************************************************************************)
defunct_keywords == <<
  <<"c","e","a","s","e","d"," ","o","p","e","r","a","t","i","o","n","s">>,
  <<"d","e","f","u","n","c","t">>,
  <<"n","o"," ","l","o","n","g","e","r"," ","o","p","e","r","a","t","e","s">>,
  <<"d","i","s","c","o","n","t","i","n","u","e","d">>,
  <<"l","i","q","u","i","d","a","t","e","d">>,
  <<"b","a","n","k","r","u","p","t">>,
  <<"s","h","u","t"," ","d","o","w","n">>,
  <<"s","t","o","p","p","e","d"," ","f","l","y","i","n","g">>,
  <<"e","n","d","e","d"," ","o","p","e","r","a","t","i","o","n","s">>,
  <<"c","l","o","s","e","d"," ","d","o","w","n">>,
  <<"c","e","a","s","e","d"," ","t","r","a","d","i","n","g">>,
  <<"w","e","n","t"," ","o","u","t"," ","o","f"," ","b","u","s","i","n","e","s","s">> >>

operating_keywords == <<
  <<"c","u","r","r","e","n","t","l","y"," ","o","p","e","r","a","t","e","s">>,
  <<"o","p","e","r","a","t","i","n","g">>,
  <<"o","p","e","r","a","t","e","s"," ","f","l","i","g","h","t","s">>,
  <<"a","c","t","i","v","e"," ","a","i","r","l","i","n","e">>,
  <<"c","o","n","t","i","n","u","e","s"," ","t","o"," ","o","p","e","r","a","t","e">>,
  <<"f","l","y","i","n","g">>,
  <<"s","e","r","v","e","s"," ","d","e","s","t","i","n","a","t","i","o","n","s">>,
  <<"s","c","h","e","d","u","l","e","d"," ","f","l","i","g","h","t","s">>,
  <<"i","s"," ","o","p","e","r","a","t","i","n","g">> >>

renamed_keywords == <<
  <<"r","e","n","a","m","e","d"," ","t","o">>,
  <<"r","e","b","r","a","n","d","e","d"," ","a","s">>,
  <<"n","o","w"," ","k","n","o","w","n"," ","a","s">>,
  <<"c","h","a","n","g","e","d"," ","i","t","s"," ","n","a","m","e"," ","t","o">>,
  <<"b","e","c","a","m","e">>,
  <<"m","e","r","g","e","d"," ","w","i","t","h">>,
  <<"a","c","q","u","i","r","e","d"," ","b","y">>,
  <<"r","e","p","l","a","c","e","d"," ","b","y">> >>

\* any(keyword in text_lower for keyword in keywords)
AnyKeyword(text_lower, keywords) ==
  \E i \in 1..Len(keywords) : Contains(text_lower, keywords[i])

is_defunct(text_lower) == AnyKeyword(text_lower, defunct_keywords)

is_operating(text_lower) == AnyKeyword(text_lower, operating_keywords)

is_renamed(text_lower) == AnyKeyword(text_lower, renamed_keywords)

(***************************************************************************)
(* ceased_date_pattern = r'ceased operations?.*?(\d{4})', re.search on     *)
(* text_lower.                                                             *)
(***************************************************************************)
CeasedLiteral == <<"c","e","a","s","e","d"," ","o","p","e","r","a","t","i","o","n">>

\* \d{4} at position e
DigitsAt(t, e) ==
  /\ e >= 1
  /\ e + 3 <= Len(t)
  /\ \A j \in e..(e + 3) : t[j] \in Digit

\* Mutant of LazyYearFrom: .* taken greedily, the last year of the line wins.
LazyYearFrom_greedy(t, from) ==
  LET E == {e \in from..Len(t) :
              /\ DigitsAt(t, e)
              /\ \A j \in from..(e - 1) : t[j] # "\n"}
  IN  IF E = {} THEN 0 ELSE CHOOSE x \in E : \A y \in E : y <= x

\* .*?(\d{4}) started at position from: the lazy quantifier takes the
\* fewest characters, none of them a line break; 0 when there is no match.
LazyYearFrom(t, from) ==
  LET E == {e \in from..Len(t) :
              /\ DigitsAt(t, e)
              /\ \A j \in from..(e - 1) : t[j] # "\n"}
  IN  IF E = {} THEN 0 ELSE Min(E)

\* The whole pattern tried at position p: where group 1 starts, or 0. The
\* greedy s? takes an "s" first and gives it back if the rest fails.
CeasedGroupAt(t, p) ==
  IF ~MatchAt(t, p, CeasedLiteral) THEN 0
  ELSE LET q == p + Len(CeasedLiteral)
           withS == IF q <= Len(t) /\ t[q] = "s"
                    THEN LazyYearFrom(t, q + 1) ELSE 0
       IN  IF withS # 0 THEN withS ELSE LazyYearFrom(t, q)

\* ceased_match.group(1) if ceased_match else None
ceased_year(text_lower) ==
  LET P == {p \in 1..Len(text_lower) : CeasedGroupAt(text_lower, p) # 0}
  IN  IF P = {} THEN None
      ELSE LET e == CeasedGroupAt(text_lower, Min(P))
           IN  SubSeq(text_lower, e, e + 3)

(***************************************************************************)
(* pattern = f'{keyword}\\s+([A-Z][\\w\\s&-]+?)(?:\\.|,|\\sin\\s|\\sfrom\\s|$)' *)
(* re.search on text with re.IGNORECASE.                                   *)
(***************************************************************************)
\* \s<word>\s at position x
SepWordAt(t, x, word) ==
  /\ x >= 1
  /\ x + Len(word) + 1 <= Len(t)
  /\ t[x] \in Whitespace
  /\ MatchAtIC(t, x + 1, word)
  /\ t[x + Len(word) + 1] \in Whitespace

\* (?:\.|,|\sin\s|\sfrom\s|$) at position x; $ is the end of the text or
\* the place before a line break that ends the text.
TerminatorAt(t, x) ==
  \/ x = Len(t) + 1
  \/ x = Len(t) /\ t[x] = "\n"
  \/ x >= 1 /\ x <= Len(t) /\ t[x] \in {".", ","}
  \/ SepWordAt(t, x, <<"i","n">>)
  \/ SepWordAt(t, x, <<"f","r","o","m">>)

\* The pattern for keyword tried at position p: <<first, last>> of group 1,
\* or <<0, 0>>. \s+ takes the whole run of white space (a shorter run would
\* leave white space where [A-Z] must match); [\w\s&-]+? takes the fewest
\* characters, at least one, that a terminator follows.
NameGroupAt(t, p, keyword) ==
  IF ~MatchAtIC(t, p, keyword) THEN <<0, 0>>
  ELSE LET w0 == p + Len(keyword)
           W == {w \in (w0 + 1)..Len(t) :
                   /\ \A j \in w0..(w - 1) : t[j] \in Whitespace
                   /\ t[w] \in Letter}
       IN  IF W = {} THEN <<0, 0>>
           ELSE LET w == Min(W)
                    L == {l \in (w + 1)..Len(t) :
                            /\ \A j \in (w + 1)..l : t[j] \in NameChar
                            /\ TerminatorAt(t, l + 1)}
                IN  IF L = {} THEN <<0, 0>> ELSE <<w, Min(L)>>

\* Mutant of NameSearch: the rightmost match instead of the leftmost.
NameSearch_rightmost(t, keyword) ==
  LET P == {p \in 1..Len(t) : NameGroupAt(t, p, keyword) # <<0, 0>>}
  IN  IF P = {} THEN None
      ELSE LET g == NameGroupAt(t, CHOOSE x \in P : \A y \in P : y <= x,
                                keyword)
           IN  SubSeq(t, g[1], g[2])

\* re.search(pattern, text, re.IGNORECASE): group 1 of the leftmost match,
\* or None.
NameSearch(t, keyword) ==
  LET P == {p \in 1..Len(t) : NameGroupAt(t, p, keyword) # <<0, 0>>}
  IN  IF P = {} THEN None
      ELSE LET g == NameGroupAt(t, Min(P), keyword)
           IN  SubSeq(t, g[1], g[2])

\* The loop over renamed_keywords: the first keyword of the list whose
\* pattern matches gives the name.
new_name(t, renamed) ==
  IF ~renamed THEN None
  ELSE LET K == {i \in 1..Len(renamed_keywords) :
                   NameSearch(t, renamed_keywords[i]) # None}
       IN  IF K = {} THEN None
           ELSE strip(NameSearch(t, renamed_keywords[Min(K)]))

(***************************************************************************)
(* Confidence and status.                                                  *)
(***************************************************************************)
LOW == "NIZKIY"
MEDIUM == "SREDNIY"
HIGH == "VYSOKIY"

OPERATING == "DEYSTVUET"
RENAMED == "PEREIMENOVANA"
UNKNOWN == "STATUS NEIZVESTEN"

\* The placeholder returned for new_name when no name was extracted.
NA == <<"N","/","D">>

Currently == <<"c","u","r","r","e","n","t","l","y">>

\* f'... ({ceased_year if ceased_year else "..."})'
DEFUNCT(year) ==
  "NE DEYSTVUET (prekrashchena "
    \o (IF year # None THEN Str(year) ELSE "data neizvestna") \o ")"

\* Mutant of confidence: an operating match is HIGH without "currently".
confidence_no_currently(defunct, operating, year, text_lower) ==
  IF defunct /\ year # None THEN HIGH
  ELSE IF operating THEN HIGH
  ELSE IF defunct \/ operating THEN MEDIUM
  ELSE LOW

\* Mutant of confidence: the MEDIUM test placed before the "currently" test.
confidence_medium_first(defunct, operating, year, text_lower) ==
  IF defunct /\ year # None THEN HIGH
  ELSE IF defunct \/ operating THEN MEDIUM
  ELSE IF operating /\ Contains(text_lower, Currently) THEN HIGH
  ELSE LOW

\* Mutant of confidence: the initial value is MEDIUM instead of LOW.
confidence_default_medium(defunct, operating, year, text_lower) ==
  IF defunct /\ year # None THEN HIGH
  ELSE IF operating /\ Contains(text_lower, Currently) THEN HIGH
  ELSE MEDIUM

confidence(defunct, operating, year, text_lower) ==
  IF defunct /\ year # None THEN HIGH
  ELSE IF operating /\ Contains(text_lower, Currently) THEN HIGH
  ELSE IF defunct \/ operating THEN MEDIUM
  ELSE LOW

\* Mutant of status: the operating test placed before the defunct test.
status_operating_first(defunct, operating, renamed, name, year) ==
  IF operating THEN OPERATING
  ELSE IF defunct THEN DEFUNCT(year)
  ELSE IF renamed /\ name # None THEN RENAMED
  ELSE UNKNOWN

status(defunct, operating, renamed, name, year) ==
  IF defunct THEN DEFUNCT(year)
  ELSE IF operating THEN OPERATING
  ELSE IF renamed /\ name # None THEN RENAMED
  ELSE UNKNOWN

\* Mutant of analyze_status: the name is returned only with the status
\* RENAMED.
analyze_status_name_if_renamed(t, airline_name) ==
  LET text_lower == lower(t)
      defunct == is_defunct(text_lower)
      operating == is_operating(text_lower)
      renamed == is_renamed(text_lower)
      year == ceased_year(text_lower)
      name == new_name(t, renamed)
      st == status(defunct, operating, renamed, name, year)
  IN  [status |-> st,
       new_name |-> IF name # None /\ st = RENAMED THEN name ELSE NA,
       confidence |-> confidence(defunct, operating, year, text_lower),
       ceased_year |-> year]

\* Mutant of analyze_status: new_name returned as it is, None included.
analyze_status_raw_name(t, airline_name) ==
  LET text_lower == lower(t)
      defunct == is_defunct(text_lower)
      operating == is_operating(text_lower)
      renamed == is_renamed(text_lower)
      year == ceased_year(text_lower)
      name == new_name(t, renamed)
  IN  [status |-> status(defunct, operating, renamed, name, year),
       new_name |-> name,
       confidence |-> confidence(defunct, operating, year, text_lower),
       ceased_year |-> year]

\* Mutant of analyze_status: the operating keywords looked up in
\* airline_lower instead of text_lower.
analyze_status_by_name(t, airline_name) ==
  LET text_lower == lower(t)
      airline_lower == lower(airline_name)
      defunct == is_defunct(text_lower)
      operating == is_operating(airline_lower)
      renamed == is_renamed(text_lower)
      year == ceased_year(text_lower)
      name == new_name(t, renamed)
  IN  [status |-> status(defunct, operating, renamed, name, year),
       new_name |-> IF name # None THEN name ELSE NA,
       confidence |-> confidence(defunct, operating, year, text_lower),
       ceased_year |-> year]

analyze_status(t, airline_name) ==
  LET text_lower == lower(t)
      airline_lower == lower(airline_name)
      defunct == is_defunct(text_lower)
      operating == is_operating(text_lower)
      renamed == is_renamed(text_lower)
      year == ceased_year(text_lower)
      name == new_name(t, renamed)
  IN  [status |-> status(defunct, operating, renamed, name, year),
       new_name |-> IF name # None THEN name ELSE NA,
       confidence |-> confidence(defunct, operating, year, text_lower),
       ceased_year |-> year]

(***************************************************************************)
(* Inputs: the source texts and the airline names.                         *)
(***************************************************************************)
Vocab == <<
  <<"c","e","a","s","e","d"," ","o","p","e","r","a","t","i","o","n","s"," ","i","n"," ","1","9","9","8">>,
  <<"C","e","a","s","e","d"," ","o","p","e","r","a","t","i","o","n"," ","2","0","0","1"," ">>,
  <<"i","s"," ","c","u","r","r","e","n","t","l","y"," ","o","p","e","r","a","t","i","n","g"," ","f","l","i","g","h","t","s">>,
  <<"w","a","s"," ","r","e","n","a","m","e","d"," ","t","o"," ","D","e","l","t","a"," ","A","i","r","l","i","n","e","s",".">>,
  <<" ","R","e","n","a","m","e","d"," ","T","o","\r","P","a","n","\f","A","m",","," ">>,
  <<" ","d","e","f","u","n","c","t"," ">>,
  <<" ","f","l","y","i","n","g"," ">>,
  <<"r","e","b","r","a","n","d","e","d"," ","a","s"," ","7","u","p">>,
  <<" ","b","e","c","a","m","e"," ","a","v","i","a","n","c","a"," ","f","r","o","m"," ","1","9","9","0">>,
  <<"\n">> >>

RECURSIVE Concat(_)
Concat(fs) == IF fs = <<>> THEN <<>> ELSE Vocab[fs[1]] \o Concat(Tail(fs))

Texts ==
  {Concat(fs) : fs \in UNION {[1..n -> 1..Len(Vocab)] : n \in 0..MaxFrags}}

\* Two names of the list in main.
Names == {<<"F","i","r","s","t"," ","F","l","y","i","n","g">>, <<"Z","z">>}

(***************************************************************************)
(* The state machine: a text is given, and analyze_status is invoked on it *)
(* any number of times with any of the names; calls holds the latest two   *)
(* invocations, each with the name passed and the result returned.         *)
(***************************************************************************)
Init ==
  /\ text \in Texts
  /\ calls = <<>>
  /\ LookupIdle
  /\ MainIdle

Analyze(airline_name) ==
  /\ calls' = LET call == [airline_name |-> airline_name,
                           result |-> analyze_status(text, airline_name)]
              IN  IF calls = <<>> THEN <<call>> ELSE <<calls[Len(calls)], call>>
  /\ UNCHANGED <<text, lookup_vars, main_vars>>

Next == \E airline_name \in Names : Analyze(airline_name)

Spec == Init /\ [][Next]_vars

(***************************************************************************)
(* check_wikipedia and check_airline. The lookup service is outside the    *)
(* program: what it answers to the two requests of check_wikipedia is the  *)
(* record w,                                                               *)
(*   search_ok   the opensearch request returned and parsed as JSON        *)
(*               (otherwise session.get or response.json() raised),        *)
(*   results     the JSON list of the opensearch request; Python's         *)
(*               results[i] is results[i + 1] here,                        *)
(*   content_ok  the same for the extracts request,                        *)
(*   pages       the extracts of query.pages, in order.                    *)
(* The Cyrillic literals of check_airline: line 152 ->                     *)
(* "INFORMATSIYA NE NAYDENA", line 155 -> "Informatsiya ne naydena v       *)
(* dostupnykh istochnikakh".                                               *)
(***************************************************************************)
NOT_FOUND == "INFORMATSIYA NE NAYDENA"

NOT_FOUND_SOURCE == "Informatsiya ne naydena v dostupnykh istochnikakh"

\* What the except clause of line 67 returns.
WikipediaError(e) == [found |-> FALSE, error |-> e]

check_wikipedia(airline_name, w) ==
  IF ~w.search_ok THEN WikipediaError("search request")
  ELSE LET results_ == w.results
       IN  IF Len(results_) > 1 /\ Len(results_[2]) > 0
           THEN IF ~w.content_ok THEN WikipediaError("content request")
                ELSE IF w.pages # <<>>
                THEN IF Len(results_) > 2 /\ Len(results_[3]) = 0
                     THEN WikipediaError("list index out of range")
                     ELSE [found |-> TRUE,
                           title |-> results_[2][1],
                           url |-> IF Len(results_) > 2
                                   THEN results_[3][1] ELSE "",
                           extract |-> lower(w.pages[1])]
                ELSE [found |-> FALSE]
           ELSE [found |-> FALSE]

\* Mutant of check_airline: the extract is analysed whether or not the
\* article was found.
check_airline_always_analyze(airline_name, w) ==
  LET wiki_result == check_wikipedia(airline_name, w)
      analysis == analyze_status(IF wiki_result.found
                                 THEN wiki_result.extract ELSE <<>>,
                                 airline_name)
  IN  [airline |-> airline_name,
       status |-> analysis.status,
       new_name |-> analysis.new_name,
       confidence |-> analysis.confidence,
       source |-> "Wikipedia: "
                    \o (IF wiki_result.found THEN wiki_result.url ELSE "")]

check_airline(airline_name, w) ==
  LET wiki_result == check_wikipedia(airline_name, w)
  IN  IF ~wiki_result.found
      THEN [airline |-> airline_name,
            status |-> NOT_FOUND,
            new_name |-> NA,
            confidence |-> LOW,
            source |-> NOT_FOUND_SOURCE]
      ELSE LET analysis == analyze_status(wiki_result.extract, airline_name)
           IN  [airline |-> airline_name,
                status |-> analysis.status,
                new_name |-> analysis.new_name,
                confidence |-> analysis.confidence,
                source |-> "Wikipedia: " \o wiki_result.url]

\* The number of invocations of analyze_status that check_airline makes
\* (line 159 is reached or not).
analyze_calls(airline_name, w) ==
  IF check_wikipedia(airline_name, w).found THEN 1 ELSE 0

(***************************************************************************)
(* Inputs: answers of the lookup service.                                  *)
(***************************************************************************)
Title == "Zz (airline)"

Url == "https://en.wikipedia.org/wiki/Zz"

\* [query, titles, urls]
FullResults == <<"Zz", <<Title>>, <<Url>>>>

\* Searches that give no article: the request fails, the list is too short,
\* no title.
NoArticleWebs ==
  {[search_ok |-> FALSE, results |-> <<>>, content_ok |-> TRUE, pages |-> <<>>]}
    \cup {[search_ok |-> TRUE, results |-> r, content_ok |-> TRUE, pages |-> <<>>] :
            r \in {<<>>, <<"Zz">>, <<"Zz", <<>>, <<>>>>}}

\* An article is found and its content is not: the request fails, there is
\* no page, or the list of URLs is empty (the IndexError of line 61).
NoContentWebs ==
  {[search_ok |-> TRUE, results |-> FullResults, content_ok |-> FALSE,
    pages |-> <<>>],
   [search_ok |-> TRUE, results |-> FullResults, content_ok |-> TRUE,
    pages |-> <<>>],
   [search_ok |-> TRUE, results |-> <<"Zz", <<Title>>, <<>>>>,
    content_ok |-> TRUE, pages |-> <<<<>>>>]}

\* The article is found with the extract t, with or without a list of URLs.
PageWebs(T) ==
  {[search_ok |-> TRUE, results |-> r, content_ok |-> TRUE, pages |-> <<t>>] :
     r \in {FullResults, <<"Zz", <<Title>>>>}, t \in T}

LookupWebs == NoArticleWebs \cup NoContentWebs \cup PageWebs(Texts)

(***************************************************************************)
(* The state machine of check_airline: a name and the answers of the       *)
(* lookup service are given, and check_airline returns a record.           *)
(***************************************************************************)
InitLookup ==
  /\ query \in [airline_name : Names, web : LookupWebs]
  /\ record = <<>>
  /\ AnalysisIdle
  /\ MainIdle

CheckAirline ==
  /\ record' = <<check_airline(query.airline_name, query.web)>>
  /\ UNCHANGED <<query, analysis_vars, main_vars>>

NextLookup == CheckAirline

SpecLookup == InitLookup /\ [][NextLookup]_vars

(***************************************************************************)
(* main: the list of airlines, the lookup loop and the reports.            *)
(*                                                                         *)
(* The list of lines 258-1447 holds 1190 distinct names, some with a       *)
(* trailing blank (line 280). The model runs main on a list of MaxLines    *)
(* lines taken in turn from RawLines: two names of the list and an empty   *)
(* line, which the list does not have and line 1449 provides for. The      *)
(* lookup service answers by name: wiki[name] is what it answers for name  *)
(* during the run. time.sleep (line 1463) and the printing are left out.   *)
(***************************************************************************)
\* The number of lines of the list.
MaxLines == 153

\* A temporary report is written every SaveEvery airlines.
SaveEvery == 100

RawLines == <<<<"Z","z">>, <<>>, <<"A","e","r","o","W","o","r","l","d"," ">>>>

\* airlines.split('\n')
airlines == [i \in 1..MaxLines |-> RawLines[((i - 1) % Len(RawLines)) + 1]]

\* [line.strip() for line in lines if line.strip()], computed on the two
\* halves of the list, which keeps the order.
RECURSIVE NamesOf(_)
NamesOf(lines) ==
  IF lines = <<>> THEN <<>>
  ELSE IF Len(lines) = 1
       THEN IF strip(lines[1]) # <<>> THEN <<strip(lines[1])>> ELSE <<>>
       ELSE LET h == Len(lines) \div 2
            IN  NamesOf(SubSeq(lines, 1, h))
                  \o NamesOf(SubSeq(lines, h + 1, Len(lines)))

airlines_list == NamesOf([i \in 1..MaxLines |-> airlines[i]])

\* f'airline_status_report_temp_{idx}.xlsx'
temp_filename(i) == "airline_status_report_temp_" \o ToString(i) \o ".xlsx"

final_filename == "airline_status_report_final.xlsx"

\* Mutant of temp_due: the test made on the index of the next airline.
temp_due_next(i) == (i + 1) % SaveEvery = 0

\* if idx % 100 == 0
temp_due(i) == i % SaveEvery = 0

\* create_excel_report: the file written, with one row per result (the
\* number idx - 1 and the five fields, lines 205-217) and the total of the
\* information sheet (line 231). Styles and widths are left out.
create_excel_report(results_, filename) ==
  [filename |-> filename,
   rows |-> [k \in 1..Len(results_) |->
               [num |-> k,
                airline |-> results_[k].airline,
                status |-> results_[k].status,
                new_name |-> results_[k].new_name,
                confidence |-> results_[k].confidence,
                source |-> results_[k].source]],
   total |-> Len(results_)]

(***************************************************************************)
(* Inputs of main: the answers of the lookup service.                      *)
(***************************************************************************)
MainNames == {airlines_list[i] : i \in 1..Len(airlines_list)}

MainWebs == NoArticleWebs \cup NoContentWebs \cup PageWebs({Vocab[1]})

(***************************************************************************)
(* The state machine of main. idx is the loop index (0 before the loop),   *)
(* results the result list, reports the files written, in order, analyses  *)
(* the number of invocations of analyze_status so far.                     *)
(***************************************************************************)
FinalWritten == \E j \in DOMAIN reports : reports[j].filename = final_filename

InitMain ==
  /\ wiki \in [MainNames -> MainWebs]
  /\ idx = 0
  /\ results = <<>>
  /\ reports = <<>>
  /\ analyses = 0
  /\ AnalysisIdle
  /\ LookupIdle

\* The record of the turn idx is appended and the turn is at its wait (line
\* 1463) or at the test of line 1466, with a temporary report that is due
\* and not yet written.
SavePending ==
  /\ idx > 0
  /\ Len(results) = idx
  /\ temp_due(idx)
  /\ \A j \in DOMAIN reports : reports[j].filename # temp_filename(idx)

\* Lines 1457-1459: the loop takes the next airline, idx is its index, and
\* check_airline is called; main waits for the answers of the lookup.
Iterate ==
  /\ idx < Len(airlines_list)
  /\ Len(results) = idx
  /\ ~SavePending
  /\ ~FinalWritten
  /\ idx' = idx + 1
  /\ UNCHANGED <<wiki, results, reports, analyses, analysis_vars, lookup_vars>>

\* Lines 1459-1463: check_airline returns and its record is appended; the
\* turn then waits.
AppendResult ==
  /\ Len(results) < idx
  /\ results' = Append(results,
                       check_airline(airlines_list[idx],
                                     wiki[airlines_list[idx]]))
  /\ analyses' = analyses + analyze_calls(airlines_list[idx],
                                          wiki[airlines_list[idx]])
  /\ UNCHANGED <<wiki, idx, reports, analysis_vars, lookup_vars>>

\* Lines 1466-1469: after the wait, the temporary report of a turn whose
\* index is a multiple of 100.
TempSave ==
  /\ SavePending
  /\ reports' = Append(reports,
                       create_excel_report(results, temp_filename(idx)))
  /\ UNCHANGED <<wiki, idx, results, analyses, analysis_vars, lookup_vars>>

\* Lines 1471-1473, after the loop.
FinalSave ==
  /\ idx = Len(airlines_list)
  /\ Len(results) = idx
  /\ ~SavePending
  /\ ~FinalWritten
  /\ reports' = Append(reports, create_excel_report(results, final_filename))
  /\ UNCHANGED <<wiki, idx, results, analyses, analysis_vars, lookup_vars>>

NextMain == Iterate \/ AppendResult \/ TempSave \/ FinalSave

SpecMain == InitMain /\ [][NextMain]_vars

(***************************************************************************)
(* Vocabulary of the properties.                                           *)
(***************************************************************************)
\* The results of the latest invocations.
Results == {calls[i].result : i \in DOMAIN calls}

Called == calls # <<>>

DefunctMatched == is_defunct(lower(text))

OperatingMatched == is_operating(lower(text))

RenamedMatched == is_renamed(lower(text))

CurrentlyPresent == Contains(lower(text), Currently)

\* The status of r is the defunct one (it embeds the year of r, if any).
IsDefunct(r) == r.status = DEFUNCT(r.ceased_year)

\* The first position of k in t; 0 when k does not occur.
FirstPos(t, k) ==
  LET P == {p \in 1..Len(t) : MatchAt(t, p, k)}
  IN  IF P = {} THEN 0 ELSE Min(P)

Phrase1998 == <<"c","e","a","s","e","d"," ","o","p","e","r","a","t","i","o","n","s"," ","i","n"," ","1","9","9","8">>

PhraseOperating == <<"i","s"," ","c","u","r","r","e","n","t","l","y"," ","o","p","e","r","a","t","i","n","g"," ","f","l","i","g","h","t","s">>

PhraseDelta == <<"w","a","s"," ","r","e","n","a","m","e","d"," ","t","o"," ","D","e","l","t","a"," ","A","i","r","l","i","n","e","s",".">>

Year1998 == <<"1","9","9","8">>

DeltaAirlines == <<"D","e","l","t","a"," ","A","i","r","l","i","n","e","s">>

RenamedTo == <<"r","e","n","a","m","e","d"," ","t","o">>

(***************************************************************************)
(* C1: the status follows a fixed priority over the three keyword matches: *)
(* Defunct whenever a defunct phrase matched; Operating when an operating  *)
(* phrase matched and no defunct one; Renamed when neither of these        *)
(* matched, a renamed phrase matched and a name was extracted; Unknown in  *)
(* every other case.                                                       *)
(***************************************************************************)
C1_StatusPriority ==
  \A r \in Results :
    LET extracted == r.new_name # NA
    IN  /\ DefunctMatched => IsDefunct(r)
        /\ ~DefunctMatched /\ OperatingMatched => r.status = OPERATING
        /\ ~DefunctMatched /\ ~OperatingMatched /\ RenamedMatched /\ extracted
             => r.status = RENAMED
        /\ ~DefunctMatched /\ ~OperatingMatched /\ ~(RenamedMatched /\ extracted)
             => r.status = UNKNOWN

\* A defunct and an operating phrase both matched, and the result is Defunct.
C1_Witness ==
  /\ Called
  /\ DefunctMatched /\ OperatingMatched
  /\ \A r \in Results : IsDefunct(r)

(***************************************************************************)
(* C2: the confidence is High if and only if (a defunct phrase matched and *)
(* a ceased year was extracted) or (an operating phrase matched and        *)
(* "currently" occurs in the lowercased text).                             *)
(***************************************************************************)
C2_HighIff ==
  \A r \in Results :
    r.confidence = HIGH
      <=> \/ DefunctMatched /\ r.ceased_year # None
          \/ OperatingMatched /\ CurrentlyPresent

\* An operating phrase without "currently", no defunct phrase: not High.
C2_Witness ==
  /\ Called
  /\ OperatingMatched /\ ~CurrentlyPresent /\ ~DefunctMatched
  /\ \A r \in Results : r.confidence = MEDIUM

(***************************************************************************)
(* C3: when the confidence is not High, it is Medium if and only if        *)
(* exactly one of the defunct and operating keyword sets matched, and Low  *)
(* in every other case, the one where both matched included.               *)
(***************************************************************************)
C3_MediumIffExactlyOne ==
  \A r \in Results :
    r.confidence # HIGH =>
      LET exactlyOne == DefunctMatched # OperatingMatched
      IN  /\ r.confidence = MEDIUM <=> exactlyOne
          /\ ~exactlyOne => r.confidence = LOW

(***************************************************************************)
(* C4, as stated: a text that contains "ceased operations in 1998" gives   *)
(* status Defunct, ceasedYear "1998" and confidence High.                  *)
(***************************************************************************)
C4_Original ==
  Contains(text, Phrase1998) =>
    \A r \in Results :
      IsDefunct(r) /\ r.ceased_year = Year1998 /\ r.confidence = HIGH

(***************************************************************************)
(* C4, amended: a text that contains "ceased operations in 1998" gives     *)
(* status Defunct, confidence High and some ceased year; the year is       *)
(* "1998" when the phrase is the first occurrence of "ceased operation" in *)
(* the lowercased text.                                                    *)
(***************************************************************************)
C4_Amended ==
  Contains(text, Phrase1998) =>
    \A r \in Results :
      /\ IsDefunct(r)
      /\ r.confidence = HIGH
      /\ r.ceased_year # None
      /\ FirstPos(lower(text), CeasedLiteral) = FirstPos(text, Phrase1998)
           => r.ceased_year = Year1998 /\ r.status = DEFUNCT(Year1998)

\* The phrase with other text before it, and the year 1998 returned.
C4_Witness ==
  /\ Called
  /\ FirstPos(text, Phrase1998) > 1
  /\ \A r \in Results : r.ceased_year = Year1998 /\ r.confidence = HIGH

(***************************************************************************)
(* C5, as stated: a text that contains "is currently operating flights"    *)
(* gives status Operating and confidence High.                             *)
(***************************************************************************)
C5_Original ==
  Contains(text, PhraseOperating) =>
    \A r \in Results : r.status = OPERATING /\ r.confidence = HIGH

(***************************************************************************)
(* C5, amended: a text that contains "is currently operating flights"      *)
(* gives confidence High; its status is Operating when no defunct phrase   *)
(* occurs in the text, and Defunct when one does.                          *)
(***************************************************************************)
C5_Amended ==
  Contains(text, PhraseOperating) =>
    \A r \in Results :
      /\ r.confidence = HIGH
      /\ ~DefunctMatched => r.status = OPERATING
      /\ DefunctMatched => IsDefunct(r)

\* The phrase inside a longer text without defunct phrase: Operating, High.
C5_Witness ==
  /\ Called
  /\ Contains(text, PhraseOperating)
  /\ Len(text) > Len(PhraseOperating)
  /\ \A r \in Results : r.status = OPERATING /\ r.confidence = HIGH

(***************************************************************************)
(* C6, as stated: a text that contains "was renamed to Delta Airlines."    *)
(* gives status Renamed and a successor name containing "Delta Airlines".  *)
(***************************************************************************)
C6_Original ==
  Contains(text, PhraseDelta) =>
    \A r \in Results :
      r.status = RENAMED /\ Contains(r.new_name, DeltaAirlines)

(***************************************************************************)
(* C6, amended: a text that contains "was renamed to Delta Airlines."      *)
(* always gives a successor name; the status is Renamed exactly when       *)
(* neither a defunct nor an operating phrase occurs in the text; the       *)
(* successor name is "Delta Airlines" when the phrase holds the first      *)
(* occurrence of "renamed to", letter case ignored, in the text.           *)
(***************************************************************************)
C6_Amended ==
  Contains(text, PhraseDelta) =>
    \A r \in Results :
      /\ r.new_name # NA
      /\ r.status = RENAMED <=> ~DefunctMatched /\ ~OperatingMatched
      /\ FirstPos(lower(text), RenamedTo) = FirstPos(text, PhraseDelta) + 4
           => r.new_name = DeltaAirlines

\* The phrase with other text before it: Renamed, successor Delta Airlines.
C6_Witness ==
  /\ Called
  /\ FirstPos(text, PhraseDelta) > 1
  /\ \A r \in Results : r.status = RENAMED /\ r.new_name = DeltaAirlines

(***************************************************************************)
(* C7, as stated: the empty text gives status Unknown, confidence Low, no  *)
(* ceased year and a successor name that is None.                          *)
(***************************************************************************)
C7_Original ==
  text = <<>> =>
    \A r \in Results :
      /\ r.status = UNKNOWN
      /\ r.confidence = LOW
      /\ r.ceased_year = None
      /\ r.new_name = None

(***************************************************************************)
(* C7, amended: the empty text gives status Unknown, confidence Low, no    *)
(* ceased year, and as successor name the placeholder of line 137 (not     *)
(* None).                                                                  *)
(***************************************************************************)
C7_Amended ==
  text = <<>> =>
    \A r \in Results :
      /\ r.status = UNKNOWN
      /\ r.confidence = LOW
      /\ r.ceased_year = None
      /\ r.new_name = NA

\* analyze_status has been invoked on the empty text.
C7_Witness == text = <<>> /\ Called

(***************************************************************************)
(* C8: classification is a function of the source text alone: an           *)
(* invocation returns the same result as the invocation before it on the   *)
(* same text (hence as every earlier one), whatever name is passed and     *)
(* whatever invocations came before.                                       *)
(***************************************************************************)
C8_Deterministic ==
  \A i, j \in DOMAIN calls : calls[i].result = calls[j].result

\* Two invocations on a text with a keyword match, under different names.
C8_Witness ==
  /\ Len(calls) >= 2
  /\ calls[1].airline_name # calls[2].airline_name
  /\ calls[1].result = calls[2].result
  /\ calls[1].result.status # UNKNOWN

(***************************************************************************)
(* C9: every invocation returns a result whose status is one of Defunct,   *)
(* Operating, Renamed, Unknown and whose confidence is one of High,        *)
(* Medium, Low; when no phrase of the three keyword sets occurs the result *)
(* is Unknown with Low. Analyze has no guard on the text, so every text    *)
(* is analysed and an evaluation that failed would be an error of the run. *)
(***************************************************************************)
C9_NeverFails ==
  \A r \in Results :
    /\ IsDefunct(r) \/ r.status \in {OPERATING, RENAMED, UNKNOWN}
    /\ r.confidence \in {HIGH, MEDIUM, LOW}
    /\ ~DefunctMatched /\ ~OperatingMatched /\ ~RenamedMatched
         => r.status = UNKNOWN /\ r.confidence = LOW

\* A non-empty text in which no keyword occurs: Unknown, Low.
C9_Witness ==
  /\ Called
  /\ text # <<>>
  /\ ~DefunctMatched /\ ~OperatingMatched /\ ~RenamedMatched
  /\ \A r \in Results : r.status = UNKNOWN /\ r.confidence = LOW

(***************************************************************************)
(* C10: ceasedYear is present only if a phrase of the defunct keyword set  *)
(* matched (so the status is Defunct); when no defunct phrase occurs,      *)
(* ceasedYear is absent.                                                   *)
(***************************************************************************)
C10_YearOnlyIfDefunct ==
  \A r \in Results :
    r.ceased_year # None => DefunctMatched /\ IsDefunct(r)
(***************************************************************************)
(* C11: an extracted successor name is the phrase that directly follows a  *)
(* rename keyword of the text, begins with an uppercase letter and ends at *)
(* the first sentence boundary (period, comma, " in ", " from ", end of    *)
(* text); a phrase that does not begin with an uppercase letter is not     *)
(* extracted.                                                              *)
(***************************************************************************)
C11_CapitalizedName ==
  \A r \in Results :
    r.new_name # NA =>
      /\ r.new_name[1] \in Upper
      /\ \E i \in 1..Len(renamed_keywords) : \E p \in 1..Len(text) :
           LET g == NameGroupAt(text, p, renamed_keywords[i])
           IN  /\ g # <<0, 0>>
               /\ r.new_name = strip(SubSeq(text, g[1], g[2]))

(***************************************************************************)
(* C14: a Defunct result without a ceased year has confidence Medium, also *)
(* when the text contains an operating phrase and "currently".             *)
(***************************************************************************)
C14_DefunctNoYearMedium ==
  \A r \in Results :
    IsDefunct(r) /\ r.ceased_year = None => r.confidence = MEDIUM

(***************************************************************************)
(* C16: the successor name is returned independently of the status: when a *)
(* renamed phrase matched and a name could be extracted, new_name is that  *)
(* name, also with status Defunct or Operating; new_name is the            *)
(* placeholder exactly when no renamed phrase matched or no name could be  *)
(* extracted.                                                              *)
(***************************************************************************)
C16_NameIndependentOfStatus ==
  \A r \in Results :
    LET name == new_name(text, TRUE)
    IN  /\ RenamedMatched /\ name # None => r.new_name = name
        /\ r.new_name = NA <=> ~RenamedMatched \/ name = None

\* A name is returned with a status that is Defunct or Operating.
C16_Witness ==
  /\ Called
  /\ \A r \in Results :
       /\ r.new_name = DeltaAirlines
       /\ IsDefunct(r) \/ r.status = OPERATING

(***************************************************************************)
(* Vocabulary of the properties of check_airline and main.                 *)
(***************************************************************************)
\* The lookup with the answers w gives no article text: no article is
\* found, or a request or the reading of its answer fails.
LookupFails(w) ==
  \/ ~w.search_ok
  \/ Len(w.results) < 2
  \/ w.results[2] = <<>>
  \/ ~w.content_ok
  \/ w.pages = <<>>
  \/ Len(w.results) > 2 /\ w.results[3] = <<>>

\* What check_airline returns for name when the lookup fails.
NotFoundRecord(name) ==
  [airline |-> name, status |-> NOT_FOUND, new_name |-> NA,
   confidence |-> LOW, source |-> NOT_FOUND_SOURCE]

(***************************************************************************)
(* C15: a record whose status is Unknown, Renamed or "information not      *)
(* found" has confidence Low; confidence Medium or High occurs only with   *)
(* status Defunct or Operating.                                            *)
(***************************************************************************)
C15_StatusConfidenceConsistent ==
  \A i \in DOMAIN record :
    /\ record[i].status \in {UNKNOWN, RENAMED, NOT_FOUND}
         => record[i].confidence = LOW
    /\ record[i].confidence \in {MEDIUM, HIGH}
         => record[i].status \notin {UNKNOWN, RENAMED, NOT_FOUND}

\* A record with status Renamed, from an article that was found.
C15_Witness ==
  /\ record # <<>>
  /\ ~LookupFails(query.web)
  /\ record[1].status = RENAMED
  /\ record[1].confidence = LOW

(***************************************************************************)
(* Vocabulary of the properties of main.                                   *)
(***************************************************************************)
\* The positions of the non-blank lines of the input list.
NonBlank == {j \in 1..MaxLines : strip(airlines[j]) # <<>>}

\* The i-th non-blank name of the input list: the stripped line that has
\* i - 1 non-blank lines before it.
ExpectedNames ==
  [i \in 1..Cardinality(NonBlank) |->
     strip(airlines[CHOOSE j \in NonBlank :
                      Cardinality({k \in NonBlank : k < j}) = i - 1])]

\* The rows of a report that holds the first k records of the result list.
RowsOf(k) ==
  [n \in 1..k |->
     [num |-> n,
      airline |-> results[n].airline,
      status |-> results[n].status,
      new_name |-> results[n].new_name,
      confidence |-> results[n].confidence,
      source |-> results[n].source]]

\* The reports written under the name f.
Written(f) == {j \in DOMAIN reports : reports[j].filename = f}

(***************************************************************************)
(* C12: a lookup that finds no article, or that fails, gives a not-found   *)
(* result; check_airline then returns the record "information not found",  *)
(* confidence Low, no successor name, and analyze_status is not called     *)
(* (it has been called once for each of the other airlines and never for   *)
(* these); main appends that record and goes on with the next airline, so  *)
(* that the result list has one record for every turn of the loop but the  *)
(* one whose lookup is under way, and the final report is written with a   *)
(* record for every airline.                                               *)
(***************************************************************************)
C12_LookupFailureHandled ==
  /\ Len(results) <= idx
  /\ idx <= Len(results) + 1
  /\ \A i \in 1..Len(results) :
       LookupFails(wiki[airlines_list[i]])
         => /\ ~check_wikipedia(airlines_list[i], wiki[airlines_list[i]]).found
            /\ results[i] = NotFoundRecord(airlines_list[i])
  /\ analyses = Cardinality({i \in 1..Len(results) :
                               ~LookupFails(wiki[airlines_list[i]])})
  /\ FinalWritten => Len(results) = Len(airlines_list)

\* The run is over; the lookup of the first airline failed with an
\* exception, the second airline was analysed after it.
C12_Witness ==
  /\ FinalWritten
  /\ ~wiki[airlines_list[1]].search_ok
  /\ results[1] = NotFoundRecord(airlines_list[1])
  /\ ~LookupFails(wiki[airlines_list[2]])
  /\ results[2].status # NOT_FOUND
  /\ analyses > 0

(***************************************************************************)
(* C13: the loop of main is sequential and keeps the order. After the k-th *)
(* airline the result list holds k records (k is the loop index, or the    *)
(* index before it while the lookup of the turn is under way), the i-th    *)
(* being for the i-th non-blank name of the input list; a temporary report *)
(* is written for k exactly when k is a multiple of 100 (never for another *)
(* k, once for a multiple, and before the next turn begins or the final    *)
(* report is written), and it holds the first k records; the final report  *)
(* is written at most once, only after every airline, as the last file,    *)
(* with one record per airline in input order.                             *)
(***************************************************************************)
C13_SequentialOrdered ==
  /\ Len(results) <= idx
  /\ idx <= Len(results) + 1
  /\ idx <= Len(ExpectedNames)
  /\ \A i \in 1..Len(results) : results[i].airline = ExpectedNames[i]
  /\ \A k \in 1..Len(results) :
       /\ k % SaveEvery # 0 => Written(temp_filename(k)) = {}
       /\ k % SaveEvery = 0 => Cardinality(Written(temp_filename(k))) <= 1
       /\ k % SaveEvery = 0 /\ (k < idx \/ FinalWritten)
            => Cardinality(Written(temp_filename(k))) = 1
  /\ \A j \in DOMAIN reports :
       reports[j].filename # final_filename
         => \E k \in 1..Len(results) :
              /\ reports[j].filename = temp_filename(k)
              /\ reports[j].total = k
              /\ reports[j].rows = RowsOf(k)
  /\ Cardinality(Written(final_filename)) <= 1
  /\ \A j \in Written(final_filename) :
       /\ j = Len(reports)
       /\ idx = Len(ExpectedNames)
       /\ Len(results) = Len(ExpectedNames)
       /\ reports[j].total = Len(ExpectedNames)
       /\ reports[j].rows = RowsOf(Len(ExpectedNames))

\* More than 100 airlines: the temporary report of the 100th has been
\* written, then the final report.
C13_Witness ==
  /\ idx > SaveEvery
  /\ Len(results) = idx
  /\ Len(reports) = 2
  /\ reports[1].filename = temp_filename(SaveEvery)
  /\ reports[1].total = SaveEvery
  /\ reports[2].filename = final_filename
  /\ reports[2].total = idx

=============================================================================
